---- MODULE Spec2Model ----
(***************************************************************************)
(* A model of movie_rec.py: the Streamlit script main(), the per-user      *)
(* rating files it loads and saves, and recommend_movies(), the user-based *)
(* collaborative filter over the mean-centred utility matrix.              *)
(*                                                                         *)
(* Numbers.  The centred ratings are rationals; a utility row is kept as   *)
(* the integer numerators num[j] over the row's common denominator den     *)
(* (the number of present ratings), so the real cell is num[j] / den.      *)
(* Comparisons of similarities and of column means are made exactly, by    *)
(* cross-multiplication; floating-point rounding is not modelled.          *)
(*                                                                         *)
(* Sizes.  The source fixes MAX_MOVIE_ID = 14076, MAX_USER_ID = 610, the   *)
(* 20 closest users and the 10 best movies.  The model keeps the four      *)
(* names and the way the code uses them, with small values: 3 movies, 3     *)
(* rows, the 2 closest users, the 2 best movies.                           *)
(*                                                                         *)
(* Environment.  Two things the source leaves to its files and libraries   *)
(* are chosen in Init and then fixed: the row labels of utility_matrix.csv *)
(* (from 0 or from 1), which utility.loc reads where utility.iloc reads    *)
(* positions, and the value scipy's cosine gives for a zero vector.        *)
(***************************************************************************)
EXTENDS Integers, Sequences, FiniteSets, TLC

VARIABLES
    utility,        \* the centred, zero-filled utility matrix (load_movielens_data)
    movies,         \* the catalog: rows of movieId, title
    rowLabelBase,   \* utility.index: the label of the first row of utility_matrix.csv
    zeroCosine,     \* what the installed scipy returns for a zero vector
    files,          \* the file system: file name -> saved rating list, or NoFile
    pc,             \* per session: where the script run of main() stands
    name,           \* per session: the text of the 'Your name: ' input
    user_ratings,   \* per session: the DataFrame user_ratings of main()
    shown,          \* what the last call of recommend_movies computed and wrote
    calls           \* presses of 'Recommend movies for me' since the last submission

vars == <<utility, movies, rowLabelBase, zeroCosine, files, pc, name, user_ratings, shown,
          calls>>

----------------------------------------------------------------------------
(* Sizes *)

\* recommend_movies: MAX_MOVIE_ID = 14076, the length of the user's row
MAX_MOVIE_ID == 3
\* recommend_movies: MAX_USER_ID = 610, the rows correlated with the user
MAX_USER_ID == 3
\* recommend_movies: sorted_corr[:20], the closest users kept
K == 2
\* recommend_movies: list(means_series.index)[:10], the movies written
N == 2

----------------------------------------------------------------------------
(* Sequences *)

RECURSIVE SumSeq(_)
SumSeq(s) == IF s = <<>> THEN 0 ELSE Head(s) + SumSeq(Tail(s))

Reverse(s) == [i \in 1..Len(s) |-> s[Len(s) + 1 - i]]

Take(s, n) == SubSeq(s, 1, IF n < Len(s) THEN n ELSE Len(s))

Range(s) == {s[i] : i \in 1..Len(s)}

\* the positions at which the sequence of booleans b is true, in order (a mask)
RECURSIVE WhereFrom(_, _)
WhereFrom(b, i) ==
    IF i > Len(b) THEN <<>>
    ELSE (IF b[i] THEN <<i>> ELSE <<>>) \o WhereFrom(b, i + 1)

Where(b) == WhereFrom(b, 1)

\* the first position at which b is true, 0 when there is none
FirstWhere(b) == LET hits == Where(b) IN IF hits = <<>> THEN 0 ELSE hits[1]

----------------------------------------------------------------------------
(* The reference data: movies.csv and utility_matrix.csv *)

\* a missing cell of utility_matrix.csv (NaN once read by pandas)
NA == -1

\* str(movie_id) and int(movie_id): the column labels of the utility matrix are
\* the decimal strings of the movie ids
Digits == <<"1", "2", "3", "4", "5", "6", "7", "8", "9">>
str(i) == Digits[i]
int(s) == CHOOSE i \in 1..Len(Digits) : Digits[i] = s

TitleOf == <<"Alien", "Brazil", "Casino", "Dune", "Eraserhead">>

\* movies.csv: one row per movie id, the titles unique
Catalog == [i \in 1..MAX_MOVIE_ID |-> [movieId |-> i, title |-> TitleOf[i]]]

\* the header of utility_matrix.csv: one column per movie of the catalog
Columns == [i \in 1..MAX_MOVIE_ID |-> str(i)]

\* rows of raw ratings a member of the population may have
RowChoices ==
    { <<5, 3, NA>>,     \* likes the first, mean 4
      <<NA, 4, 5>>,
      <<1, NA, 5>>,
      <<3, 3, NA>>,     \* every rating at the mean: centres to the zero row
      <<5, 4, 4>> }     \* mean 13/3

\* the numbers of rows utility_matrix.csv may hold
PopSizes == {K - 1, MAX_USER_ID}

Present(row) == Where([j \in 1..Len(row) |-> row[j] # NA])

\* utility.sub(utility.mean(axis='columns'), axis='rows').fillna(0) on one row:
\* the mean is taken over the present cells, a present cell becomes
\* rating - mean = (rating * count - sum) / count, a missing cell becomes 0
CenterRow(row) ==
    LET here  == Present(row)
        count == Len(here)
        sum   == SumSeq([k \in 1..count |-> row[here[k]]])
    IN  IF count = 0
        THEN [num |-> [j \in 1..Len(row) |-> 0], den |-> 1]
        ELSE [num |-> [j \in 1..Len(row) |->
                          IF row[j] = NA THEN 0 ELSE row[j] * count - sum],
              den |-> count]

load_movielens_data(raw) == [i \in 1..Len(raw) |-> CenterRow(raw[i])]

RawMatrices == UNION {[1..n -> RowChoices] : n \in PopSizes}

----------------------------------------------------------------------------
(* pandas Series and DataFrame operations used by the script *)

\* a Series: the labels of its index and the values at them
Series(index, values) == [index |-> index, values |-> values]

\* series[label] = v: the value at the label is set; a label the index does not
\* hold is appended to the Series (setting with enlargement)
SetItem(series, label, v) ==
    LET pos == FirstWhere([i \in 1..Len(series.index) |-> series.index[i] = label])
    IN  IF pos = 0
        THEN Series(Append(series.index, label), Append(series.values, v))
        ELSE Series(series.index, [series.values EXCEPT ![pos] = v])

\* user_ratings['Title'].values
Titles(ratings) == [i \in 1..Len(ratings) |-> ratings[i].Title]

----------------------------------------------------------------------------
(* scipy.spatial.distance.cosine and the similarity 1 - cosine(x, y) *)

Dot(x, y) == SumSeq([j \in 1..Len(x) |-> x[j] * y[j]])

NaN == [nan |-> TRUE, num |-> 0, den2 |-> 1]

\* sim = 1 - cosine(x, y) = x.y / sqrt(x.x * y.y), kept as the numerator num and
\* the square den2 of the denominator.  x is the numerator vector of a utility
\* row: its positive denominator cancels in the quotient.  When x or y is the
\* zero vector the quotient is 0/0: scipy's correlation() yields nan, which
\* cosine() returns as it is (np.clip) or clamps by max(0, min(nan, 2.0)) = 0,
\* so that sim is nan or 1, by the scipy release.
Similarity(x, y, zero) ==
    LET uu == Dot(x, x)
        vv == Dot(y, y)
    IN  IF uu = 0 \/ vv = 0
        THEN IF zero = "nan" THEN NaN ELSE [nan |-> FALSE, num |-> 1, den2 |-> 1]
        ELSE [nan |-> FALSE, num |-> Dot(x, y), den2 |-> uu * vv]

\* a < b on floats: false when either is nan; else num_a / sqrt(den2_a) against
\* num_b / sqrt(den2_b), decided on the signs and the squares
FloatLess(a, b) ==
    /\ ~a.nan
    /\ ~b.nan
    /\ LET sa == a.num * a.num * b.den2
           sb == b.num * b.num * a.den2
       IN  IF a.num < 0
           THEN b.num >= 0 \/ sa > sb
           ELSE b.num >= 0 /\ sa < sb

FloatEq(a, b) == ~a.nan /\ ~b.nan /\ ~FloatLess(a, b) /\ ~FloatLess(b, a)

----------------------------------------------------------------------------
(* sorted(correlations.items(), key=lambda x: x[1], reverse=True): CPython's  *)
(* list sort on fewer than 64 items is one natural run (count_run) extended  *)
(* by binary insertion (binarysort); it compares keys with < only, and a     *)
(* reverse sort reverses the list before and after.                          *)

KeyLess(a, b) == FloatLess(a.sim, b.sim)

\* count_run: the length of the run that starts the list
RECURSIVE RunEnd(_, _, _)
RunEnd(s, i, descending) ==
    IF i >= Len(s) THEN i
    ELSE IF descending
         THEN (IF KeyLess(s[i + 1], s[i]) THEN RunEnd(s, i + 1, descending) ELSE i)
         ELSE (IF KeyLess(s[i + 1], s[i]) THEN i ELSE RunEnd(s, i + 1, descending))

\* binarysort: where the pivot goes among s[1..i-1]
RECURSIVE BinarySearch(_, _, _, _)
BinarySearch(s, pivot, l, r) ==
    LET p  == l + ((r - l) \div 2)
        r2 == IF KeyLess(pivot, s[p]) THEN p ELSE r
        l2 == IF KeyLess(pivot, s[p]) THEN l ELSE p + 1
    IN  IF l2 < r2 THEN BinarySearch(s, pivot, l2, r2) ELSE l2

RECURSIVE BinarySort(_, _)
BinarySort(s, i) ==
    IF i > Len(s) THEN s
    ELSE LET l == BinarySearch(s, s[i], 1, i)
         IN  BinarySort(SubSeq(s, 1, l - 1) \o <<s[i]>> \o SubSeq(s, l, i - 1)
                            \o SubSeq(s, i + 1, Len(s)), i + 1)

ListSortReverse(items) ==
    IF Len(items) < 2 THEN items
    ELSE LET s          == Reverse(items)
             descending == KeyLess(s[2], s[1])
             n          == RunEnd(s, 2, descending)
             run        == IF descending
                           THEN Reverse(SubSeq(s, 1, n)) \o SubSeq(s, n + 1, Len(s))
                           ELSE s
         IN  Reverse(BinarySort(run, n + 1))

----------------------------------------------------------------------------
(* recommend_movies(user_ratings, utility, movies) *)

\* what a call computes, step by step; error names the exception that ended it
NoCall ==
    [called |-> FALSE, error |-> "", user_ratings_row |-> Series(<<>>, <<>>),
     correlations |-> <<>>, relevant_idx |-> <<>>, closests_users |-> <<>>,
     movie_ids_rec |-> <<>>, written |-> <<>>]

\* movies.loc[movies['title'] == movie, ['movieId']].values: the matching rows
MovieRowByTitle(catalog, movie) ==
    FirstWhere([i \in 1..Len(catalog) |-> catalog[i].title = movie])

\* RatingOf, had the user's ratings been mean-centred like the population's
\* (rating - mean, over the common denominator)
RatingOfCentred(ratings, movie) ==
    LET at == FirstWhere([i \in 1..Len(ratings) |-> ratings[i].Title = movie])
    IN  ratings[at].Rating * Len(ratings)
            - SumSeq([i \in 1..Len(ratings) |-> ratings[i].Rating])

\* user_ratings.loc[user_ratings['Title'] == movie, ['Rating']].values[0][0]
RatingOf(ratings, movie) ==
    ratings[FirstWhere([i \in 1..Len(ratings) |-> ratings[i].Title = movie])].Rating

\* the loop over movies_watched from entry i on: a title the catalog does not
\* hold makes .values[0] raise IndexError, which ends the call
RECURSIVE FillRow(_, _, _, _)
FillRow(ratings, catalog, i, row) ==
    IF i > Len(ratings) THEN [error |-> "", row |-> row]
    ELSE LET movie == ratings[i].Title
             at    == MovieRowByTitle(catalog, movie)
         IN  IF at = 0 THEN [error |-> "IndexError", row |-> row]
             ELSE FillRow(ratings, catalog, i + 1,
                          SetItem(row, str(catalog[at].movieId), RatingOf(ratings, movie)))

\* pd.Series([0 for i in range(MAX_MOVIE_ID)], index=utility.columns), then the
\* loop; the constructor raises ValueError when the lengths differ
user_ratings_row(ratings, columns, catalog) ==
    IF Len(columns) # MAX_MOVIE_ID
    THEN [error |-> "ValueError", row |-> Series(<<>>, <<>>)]
    ELSE FillRow(ratings, catalog, 1, Series(columns, [j \in 1..MAX_MOVIE_ID |-> 0]))

\* the loop over range(MAX_USER_ID): utility.iloc[i] raises IndexError past the
\* last row, cosine raises ValueError on vectors of different lengths.  The
\* dictionary keeps its insertion order: user is the position i, from 0.
correlations(row, util, zero) ==
    IF Len(util) > 0 /\ Len(util[1].num) # Len(row.values)
    THEN [error |-> "ValueError", items |-> <<>>]
    ELSE IF Len(util) < MAX_USER_ID
    THEN [error |-> "IndexError", items |-> <<>>]
    ELSE [error |-> "",
          items |-> [k \in 1..MAX_USER_ID |->
                        [user |-> k - 1,
                         sim  |-> Similarity(util[k].num, row.values, zero)]]]

\* for tup in sorted_corr[:20]: relevant_idx.append(tup[0])
relevant_idx(sorted_corr) ==
    LET top == Take(sorted_corr, K) IN [k \in 1..Len(top) |-> top[k].user]

\* utility.loc[relevant_idx, :] looks the positions up as row LABELS: the row
\* whose label is l stands at position l - base; a label the index does not
\* hold raises KeyError.  The result names the rows of utility it holds.
closests_users(idx, util, base) ==
    IF \E k \in 1..Len(idx) : idx[k] - base + 1 \notin 1..Len(util)
    THEN [error |-> "KeyError", rows |-> <<>>]
    ELSE [error |-> "", rows |-> [k \in 1..Len(idx) |-> idx[k] - base + 1]]

\* Informative, had dropna been left out: every column is kept
InformativeAlways(util, rows, j) == TRUE

\* replace(0, np.nan) and dropna(axis=1, how='all'): a column is kept when
\* some closest user's cell in it is not 0
Informative(util, rows, j) == \E k \in 1..Len(rows) : util[rows[k]].num[j] # 0

RECURSIVE ProdSeq(_)
ProdSeq(s) == IF s = <<>> THEN 1 ELSE Head(s) * ProdSeq(Tail(s))

\* closests_users.mean(axis='rows') of column j, the nan cells skipped: the sum
\* of the cells num/den over their number cnt.  The sum is kept over the common
\* denominator of the closest rows, which is the same for every column.
ColumnMean(util, rows, j) ==
    LET common == ProdSeq([k \in 1..Len(rows) |-> util[rows[k]].den])
        cells  == Where([k \in 1..Len(rows) |-> util[rows[k]].num[j] # 0])
    IN  [sum |-> SumSeq([c \in 1..Len(cells) |->
                            util[rows[cells[c]]].num[j]
                                * (common \div util[rows[cells[c]]].den)]),
         cnt |-> Len(cells)]

\* a > b on two column means; the mean of no cell is nan, which sort_values
\* puts last (na_position='last')
MeanGreater(a, b) ==
    IF a.cnt = 0 THEN FALSE
    ELSE IF b.cnt = 0 THEN TRUE
    ELSE a.sum * b.cnt > b.sum * a.cnt

\* means_series.sort_values(ascending=False): the kept columns by descending
\* mean, equal means in column order
SortedByMean(util, rows, kept) ==
    LET mean(j) == ColumnMean(util, rows, kept[j])
        rank(j) == 1 + Cardinality({i \in 1..Len(kept) :
                          \/ MeanGreater(mean(i), mean(j))
                          \/ (~MeanGreater(mean(j), mean(i)) /\ i < j)})
    IN  [r \in 1..Len(kept) |-> kept[CHOOSE j \in 1..Len(kept) : rank(j) = r]]

\* movie_ids_rec, had the slice [:10] been left out
movie_ids_rec_all(util, rows, columns) ==
    LET kept == Where([j \in 1..Len(columns) |-> Informative(util, rows, j)])
        best == SortedByMean(util, rows, kept)
    IN  [r \in 1..Len(best) |-> columns[best[r]]]

\* list(means_series.index)[:10]
movie_ids_rec(util, rows, columns) ==
    LET kept == Where([j \in 1..Len(columns) |-> Informative(util, rows, j)])
        best == Take(SortedByMean(util, rows, kept), N)
    IN  [r \in 1..Len(best) |-> columns[best[r]]]

\* movies.loc[movies['movieId'] == int(movie_id), ['title']].values
MovieRowById(catalog, movie_id) ==
    FirstWhere([i \in 1..Len(catalog) |-> catalog[i].movieId = int(movie_id)])

\* the loop that writes the titles: an id the catalog does not hold raises
\* IndexError after the titles before it were written
RECURSIVE WriteTitles(_, _, _, _)
WriteTitles(ids, catalog, r, written) ==
    IF r > Len(ids) THEN [error |-> "", written |-> written]
    ELSE LET at == MovieRowById(catalog, ids[r])
         IN  IF at = 0 THEN [error |-> "IndexError", written |-> written]
             ELSE WriteTitles(ids, catalog, r + 1, Append(written, catalog[at].title))

\* ArgsAfter, had the closest users been cut out of utility itself (no copy)
ArgsAfterInPlace(ratings, util, catalog) ==
    [user_ratings |-> ratings, utility |-> Take(util, K), movies |-> catalog]

\* the arguments as the call leaves them: the user's row is a new Series,
\* utility.loc[relevant_idx, :] and replace(0, np.nan) return new frames, and
\* dropna(inplace=True) and sort_values(inplace=True) act on those
ArgsAfter(ratings, util, catalog) ==
    [user_ratings |-> ratings, utility |-> util, movies |-> catalog]

recommend_movies(ratings, util, catalog, base, zero) ==
    LET called  == [NoCall EXCEPT !.called = TRUE]
        query   == user_ratings_row(ratings, Columns, catalog)
        built   == [called EXCEPT !.user_ratings_row = query.row]
        corr    == correlations(query.row, util, zero)
        scored  == [built EXCEPT !.correlations = corr.items]
        idx     == relevant_idx(ListSortReverse(corr.items))
        closest == closests_users(idx, util, base)
        chosen  == [scored EXCEPT !.relevant_idx = idx]
        ids     == movie_ids_rec(util, closest.rows, Columns)
        out     == WriteTitles(ids, catalog, 1, <<>>)
    IN  IF query.error # "" THEN [built EXCEPT !.error = query.error]
        ELSE IF corr.error # "" THEN [built EXCEPT !.error = corr.error]
        ELSE IF closest.error # "" THEN [chosen EXCEPT !.error = closest.error]
        ELSE [chosen EXCEPT !.closests_users = closest.rows,
                            !.movie_ids_rec = ids,
                            !.written = out.written,
                            !.error = out.error]

----------------------------------------------------------------------------
(* The rating files: load_user_ratings(name) and user_ratings.to_csv(...) *)

Sessions == {1, 2}

\* texts of the 'Your name: ' input
Names == {"ann", "bob"}

\* FileOf, had the name been left out of the file name
FileOfShared(n) == "ratings.csv"

\* f'{name}_ratings.csv'
FileOf(n) == n \o "_ratings.csv"

FileNames == {FileOf(n) : n \in Names}

NoFile == [exists |-> FALSE, rows |-> <<>>]

\* a Title cell that pandas holds as NaN (a float, equal to no text)
NaNTitle == "<float nan>"

\* fields pandas.read_csv reads as NaN by default (keep_default_na): the empty
\* field and the words of its na_values list
NaValues == {"", "NA", "N/A", "n/a", "NULL", "null", "NaN", "nan", "None", "<NA>", "#N/A"}

\* DataFrame.to_csv(index=False): a NaN cell is written as the empty field
to_csv(df) ==
    [exists |-> TRUE,
     rows   |-> [i \in 1..Len(df) |->
                   [Title  |-> IF df[i].Title = NaNTitle THEN "" ELSE df[i].Title,
                    Rating |-> df[i].Rating]]]

\* pd.read_csv(file): a field of NaValues is read as NaN
read_csv(file) ==
    [i \in 1..Len(file.rows) |->
        [Title  |-> IF file.rows[i].Title \in NaValues THEN NaNTitle
                    ELSE file.rows[i].Title,
         Rating |-> file.rows[i].Rating]]

\* read_csv raises when the file does not exist; the except branch builds the
\* empty DataFrame (the centring there acts on no row)
load_user_ratings(n, fs) ==
    IF fs[FileOf(n)].exists THEN read_csv(fs[FileOf(n)]) ELSE <<>>

----------------------------------------------------------------------------
(* main(): the form 'Rate some movies you've seen' *)

\* if movie_name in user_ratings['Title'].values: the rows of that title get the
\* rating; else: user_ratings.loc[len(user_ratings)] = [movie_name, rating]
Upsert(df, movie_name, movie_rating) ==
    IF \E i \in 1..Len(df) : df[i].Title = movie_name
    THEN [i \in 1..Len(df) |->
             IF df[i].Title = movie_name
             THEN [df[i] EXCEPT !.Rating = movie_rating] ELSE df[i]]
    ELSE Append(df, [Title |-> movie_name, Rating |-> movie_rating])

\* if submitted and movie_name and movie_rating: ...
FormBody(df, submitted, movie_name, movie_rating) ==
    IF submitted /\ movie_name # "" /\ movie_rating # 0
    THEN Upsert(df, movie_name, movie_rating)
    ELSE df

\* the longest rating list the model lets a submission build
MaxEntries == 2

Fits(df, submitted, movie_name, movie_rating) ==
    Len(FormBody(df, submitted, movie_name, movie_rating)) <= MaxEntries

\* star ratings the form may hand over (defaultValue = 3, maxValue = 5)
FormRatings == {3, 5}

\* stripped titles typed into the form: none, two movies of the catalog, and a
\* free text that is no movie of the catalog
TypedTitles == {"", "Alien", "Brazil", "Zardoz"}

----------------------------------------------------------------------------
(* One script run of main() as one step: a session alone at its files *)

\* the run after 'Submit' was pressed: load, upsert, save; the page shows no
\* recommendation.  user_ratings keeps the DataFrame the run worked on.
SubmitRun(s, movie_name, movie_rating) ==
    LET df == FormBody(load_user_ratings(name[s], files), TRUE, movie_name, movie_rating)
    IN  /\ pc[s] = "idle"
        /\ Fits(load_user_ratings(name[s], files), TRUE, movie_name, movie_rating)
        /\ user_ratings' = [user_ratings EXCEPT ![s] = df]
        /\ files' = [files EXCEPT ![FileOf(name[s])] = to_csv(df)]
        /\ shown' = NoCall
        /\ calls' = 0
        /\ UNCHANGED <<utility, movies, rowLabelBase, zeroCosine, pc, name>>

\* the presses of the button in a row that the model follows
MaxCalls == 2

\* the run after 'Recommend movies for me' was pressed: load, save (the form
\* was not submitted), recommend_movies(user_ratings, utility, movies)
RecommendRun(s) ==
    LET df    == load_user_ratings(name[s], files)
        after == ArgsAfter(df, utility, movies)
    IN  /\ pc[s] = "idle"
        /\ calls < MaxCalls
        /\ files' = [files EXCEPT ![FileOf(name[s])] = to_csv(df)]
        /\ shown' = recommend_movies(df, utility, movies, rowLabelBase, zeroCosine)
        /\ user_ratings' = [user_ratings EXCEPT ![s] = after.user_ratings]
        /\ utility' = after.utility
        /\ movies' = after.movies
        /\ calls' = calls + 1
        /\ UNCHANGED <<rowLabelBase, zeroCosine, pc, name>>

InitData(matrices, bases, zeros) ==
    /\ utility \in {load_movielens_data(raw) : raw \in matrices}
    /\ movies = Catalog
    /\ rowLabelBase \in bases
    /\ zeroCosine \in zeros

InitSessions ==
    /\ files = [f \in FileNames |-> NoFile]
    /\ pc = [s \in Sessions |-> "idle"]
    /\ name = [s \in Sessions |-> "ann"]
    /\ user_ratings = [s \in Sessions |-> <<>>]
    /\ shown = NoCall
    /\ calls = 0

Init == InitData(RawMatrices, {0, 1}, {"nan", "one"}) /\ InitSessions

Next ==
    \/ \E t \in TypedTitles, r \in FormRatings : SubmitRun(1, t, r)
    \/ RecommendRun(1)

Spec == Init /\ [][Next]_vars

----------------------------------------------------------------------------
(* Script runs of several sessions, interleaved at their file accesses.  Each *)
(* browser session runs main() from top to bottom on every interaction; the  *)
(* runs of different sessions are separate threads over one file system.     *)

\* what the form may hand over: nothing typed, a movie of the catalog with either
\* rating, and a free text that read_csv takes for a missing value
FormInputs ==
    { [title |-> "",      rating |-> 3],
      [title |-> "Alien", rating |-> 3],
      [title |-> "Alien", rating |-> 5],
      [title |-> "NA",    rating |-> 5] }

\* name = st.text_input('Your name: ')
StartRun(s, n) ==
    /\ pc[s] = "idle"
    /\ pc' = [pc EXCEPT ![s] = "load"]
    /\ name' = [name EXCEPT ![s] = n]
    /\ UNCHANGED <<utility, movies, rowLabelBase, zeroCosine, files, user_ratings, shown, calls>>

\* user_ratings = load_user_ratings(name)
Load(s) ==
    /\ pc[s] = "load"
    /\ pc' = [pc EXCEPT ![s] = "form"]
    /\ user_ratings' = [user_ratings EXCEPT ![s] = load_user_ratings(name[s], files)]
    /\ UNCHANGED <<utility, movies, rowLabelBase, zeroCosine, files, name, shown, calls>>

\* the body of the form, on the session's own DataFrame
Submit(s, submitted, movie_name, movie_rating) ==
    /\ pc[s] = "form"
    /\ Fits(user_ratings[s], submitted, movie_name, movie_rating)
    /\ pc' = [pc EXCEPT ![s] = "save"]
    /\ user_ratings' = [user_ratings EXCEPT
                           ![s] = FormBody(@, submitted, movie_name, movie_rating)]
    /\ UNCHANGED <<utility, movies, rowLabelBase, zeroCosine, files, name, shown, calls>>

\* user_ratings.to_csv(f'{name}_ratings.csv', index=False), on every run; the
\* rest of the run writes the page, and the run's DataFrame is dropped
Save(s) ==
    /\ pc[s] = "save"
    /\ pc' = [pc EXCEPT ![s] = "idle"]
    /\ files' = [files EXCEPT ![FileOf(name[s])] = to_csv(user_ratings[s])]
    /\ user_ratings' = [user_ratings EXCEPT ![s] = <<>>]
    /\ UNCHANGED <<utility, movies, rowLabelBase, zeroCosine, name, shown, calls>>

\* the reference rows of the scenario: three users over three movies
ScenarioMatrix == << <<5, 3, NA>>, <<NA, 4, 5>>, <<1, NA, 5>> >>

InitInterleaved == InitData({ScenarioMatrix}, {0}, {"nan"}) /\ InitSessions

NextInterleaved ==
    \E s \in Sessions :
        \/ \E n \in Names : StartRun(s, n)
        \/ Load(s)
        \/ \E sub \in BOOLEAN, in \in FormInputs : Submit(s, sub, in.title, in.rating)
        \/ Save(s)

SpecSessions == InitInterleaved /\ [][NextInterleaved]_vars

----------------------------------------------------------------------------
(* Properties of recommend_movies, read off the last call (shown) and its    *)
(* arguments: the DataFrame of session 1, utility and movies                 *)

\* the rating list the last call was given: the DataFrame of session 1
Mine == user_ratings[1]

Distinct(seq) == \A i, j \in 1..Len(seq) : seq[i] = seq[j] => i = j

Resolves(title) == \E i \in 1..Len(movies) : movies[i].title = title

AllResolve == \A i \in 1..Len(Mine) : Resolves(Mine[i].Title)

\* the reference data the script is written for: MAX_USER_ID rows, whose labels
\* are their positions
ReferenceData == Len(utility) = MAX_USER_ID /\ rowLabelBase = 0

\* the position of the utility column that stands for the movie of this title
ColumnOfTitle(title) ==
    CHOOSE j \in 1..Len(Columns) :
        \E i \in 1..Len(movies) :
            movies[i].title = title /\ str(movies[i].movieId) = Columns[j]

\* C1: a call with an empty rating list writes no recommendation and raises no
\* exception.  Stated over the reference data, where nothing else can raise.
C1_NoRatingsNoRecommendations ==
    (shown.called /\ Mine = <<>> /\ ReferenceData)
        => (shown.error = "" /\ shown.written = <<>>)

\* C2: when an entry's title is not in the catalog, the call still goes on: it
\* ends without exception, and every entry whose title resolves has its rating
\* in the user's row.  Stated over the reference data.
C2_UnresolvedEntrySkipped ==
    (shown.called /\ ReferenceData /\ ~AllResolve)
        => /\ shown.error = ""
           /\ \A i \in 1..Len(Mine) :
                 Resolves(Mine[i].Title)
                     => /\ Len(shown.user_ratings_row.values) = MAX_MOVIE_ID
                        /\ shown.user_ratings_row.values[ColumnOfTitle(Mine[i].Title)]
                               = Mine[i].Rating

\* C3: no title the call writes is a title of the user's rating list.
C3_NeverRecommendsRated ==
    shown.called
        => \A r \in 1..Len(shown.written) :
               \A i \in 1..Len(Mine) : Mine[i].Title # shown.written[r]

\* the similarity the call computed for the row at position u (from 0)
SimOf(u) ==
    shown.correlations[CHOOSE k \in 1..Len(shown.correlations) :
                           shown.correlations[k].user = u].sim

\* row a is ranked before row b: more similar, or as similar and earlier
RankedBefore(a, b) ==
    \/ FloatLess(SimOf(b), SimOf(a))
    \/ (FloatEq(SimOf(a), SimOf(b)) /\ a < b)

Min(a, b) == IF a < b THEN a ELSE b

\* C4: whatever the population, the call selects exactly min(K, population)
\* distinct rows, the most similar ones, in descending similarity, rows of equal
\* similarity in row order; it does not raise for a small population.
C4_NeighbourSelection ==
    (shown.called /\ AllResolve)
        => LET idx == shown.relevant_idx
               pop == 0..(Len(utility) - 1)
           IN  /\ Len(idx) = Min(K, Len(utility))
               /\ Distinct(idx)
               /\ Range(idx) \subseteq pop
               /\ \A k \in 1..(Len(idx) - 1) : RankedBefore(idx[k], idx[k + 1])
               /\ \A u \in pop \ Range(idx) :
                      \A k \in 1..Len(idx) : RankedBefore(idx[k], u)

\* C5: every movie the call writes has a cell that is not 0 in the utility row
\* of at least one of the closest users the call took.
C5_RecommendedAreRated ==
    shown.called
        => \A r \in 1..Len(shown.written) :
               \E k \in 1..Len(shown.closests_users) :
                   utility[shown.closests_users[k]].num[ColumnOfTitle(shown.written[r])] # 0

\* a call that wrote titles while some column was 0 for all its closest users
C5_Witness ==
    /\ shown.called
    /\ shown.written # <<>>
    /\ \E j \in 1..MAX_MOVIE_ID :
           \A k \in 1..Len(shown.closests_users) :
               utility[shown.closests_users[k]].num[j] = 0

\* C6: the call writes at most N titles, none twice.
C6_AtMostNDistinct ==
    shown.called => (Len(shown.written) <= N /\ Distinct(shown.written))

\* a call that wrote N titles although more than N columns were informative
C6_Witness ==
    /\ shown.called
    /\ Len(shown.written) = N
    /\ Cardinality({j \in 1..MAX_MOVIE_ID :
           \E k \in 1..Len(shown.closests_users) :
               utility[shown.closests_users[k]].num[j] # 0}) > N

RatedAt(j) ==
    LET hits == Where([i \in 1..Len(Mine) |->
                          /\ Resolves(Mine[i].Title)
                          /\ ColumnOfTitle(Mine[i].Title) = j])
    IN  IF hits = <<>> THEN 0 ELSE Mine[hits[1]].Rating

----------------------------------------------------------------------------
(* Properties of the rating lists under interleaved runs *)

\* C8: a user's rating list holds at most one entry per title, in the session's
\* DataFrame and in the file.
C8_OneEntryPerTitle ==
    /\ \A s \in Sessions : Distinct(Titles(user_ratings[s]))
    /\ \A f \in FileNames : Distinct(Titles(files[f].rows))

\* C9: a step of a session leaves the file of every other name as it was, and
\* the DataFrame of every other session.
C9_OtherUsersUntouched ==
    [][\A s \in Sessions :
           pc'[s] # pc[s]
               => /\ \A n \in Names \ {name'[s]} :
                         files'[FileOf(n)] = files[FileOf(n)]
                  /\ \A u \in Sessions \ {s} : user_ratings'[u] = user_ratings[u]]_vars

\* two sessions of different names, both between their submission and their
\* save, over files that both hold ratings
C9_Witness ==
    /\ name[1] # name[2]
    /\ pc[1] = "save"
    /\ pc[2] = "save"
    /\ files[FileOf(name[1])].rows # <<>>
    /\ files[FileOf(name[2])].rows # <<>>
    /\ user_ratings[1] # files[FileOf(name[1])].rows

====
